---- MODULE Spec2Model ----
(***************************************************************************)
(* Model of the fanto terminal editor core (src/src/main.rs): terminal     *)
(* mode lifecycle, key decoding, cursor movement, rendering and the main   *)
(* loop of run()/main().                                                   *)
(***************************************************************************)
EXTENDS Integers, Sequences, FiniteSets, TLC

VARIABLES
    term,       \* attribute flags of the controlling terminal (OS state)
    ws,         \* window size the terminal reports to TIOCGWINSZ
    stdin,      \* items standard input will deliver: bytes, or IoErr
    pos,        \* number of items of stdin consumed by the bytes iterator
    config,     \* EditorConfig: orig, rows, cols, cx, cy
    key,        \* the Option<Input> last returned by read_key
    pc,         \* position of the process in run()/main()
    res,        \* the Result of run(): "none" while running, "Ok", "Err"
    exitCode,   \* exit status of the process, -1 while it runs
    snap,       \* the attributes captured at line 72, {} before the capture
    restores,   \* number of calls of tcsetattr(.., &config.orig) (line 200)
    restoreFailed, \* the call at line 200 returned an error
    frames,     \* number of calls of draw_rows
    screen,     \* buffer printed by the last draw_rows
    readErr,    \* read_key has consumed an Err item of stdin
    quit,       \* process_key has returned false
    continued   \* number of events for which process_key returned true

vars == << term, ws, stdin, pos, config, key, pc, res, exitCode, snap,
           restores, restoreFailed, frames, screen, readErr, quit, continued >>

(***************************************************************************)
(* Bounds of the model.                                                    *)
(***************************************************************************)
MaxKeys == 3        \* chunks of input in a stream of the general sessions
MaxRows == 2        \* largest ws_row of the general sessions
MaxCols == 2        \* largest ws_col of the general sessions
MaxArrows == 3      \* arrow keys before Ctrl-Q in the end-to-end sessions
MaxE2ERows == 10    \* largest ws_row of the end-to-end sessions
MaxRenderRows == 24 \* largest ws_row of the rendering sessions
MaxRenderCols == 80 \* largest ws_col of the rendering sessions
MaxRenderKeys == 10 \* arrow keys of each direction in a rendering session
MaxLiveKeys == 3    \* chunks of input in a stream of the termination sessions
MaxWideCols == 1965 \* largest ws_col of the one-row wide sessions

(***************************************************************************)
(* Constants of the program.                                               *)
(***************************************************************************)
ESCAPE == 27
U16 == 65536
IoErr == 256        \* an Err(_) item of the iterator over io::Result<u8>
LBracket == 91
ByteA == 65
ByteB == 66
ByteC == 67
ByteD == 68
ByteQ == 113
CtrlQ == 17         \* the byte a terminal sends for Ctrl-Q
PanicCode == 101
\* capacity in bytes of the buffer of std::io::stdout() that print! fills
StdoutCapacity == 1024

Min(a, b) == IF a < b THEN a ELSE b

\* u16 arithmetic, wrapping as a release build does
Add16(a, b) == (a + b) % U16
Sub16(a, b) == (a - b + U16) % U16

\* mutant of ctrl: the mask 0x0f instead of 0x1f
ctrl_mask_0f(c) == (c % 256) % 16

\* fn ctrl(c: char) -> u8 { (c as u8) & 0x1f }
ctrl(c) == (c % 256) % 32

(***************************************************************************)
(* Terminal attributes: the flags the program touches.                     *)
(***************************************************************************)
IFlagsOff == {"BRKINT", "ICRNL", "INPCK", "IXON"}
OFlagsOff == {"OPOST"}
CFlagsOn == {"CS8"}
LFlagsOff == {"ECHO", "ICANON", "IEXTEN", "ISIG"}

\* lines 44-47: the attributes enable_raw_mode writes, computed from those read
RawAttrs(t) == (((t \ IFlagsOff) \ OFlagsOff) \cup CFlagsOn) \ LFlagsOff

\* the attribute state of a terminal when the editor is started from a shell
Cooked == {"BRKINT", "ICRNL", "IXON", "OPOST", "CS8", "ECHO", "ICANON", "IEXTEN", "ISIG"}
TermStates == {Cooked}

(***************************************************************************)
(* read_window_size: Ok((rows, cols)) iff both reported sizes are > 0.     *)
(* A failed ioctl leaves the zeroes of the initializer (its return value   *)
(* is ignored), so it is the report [row |-> 0, col |-> 0].                *)
(***************************************************************************)
\* mutant of read_window_size: one positive size is enough
read_window_size_either(wc) ==
    IF wc.col > 0 \/ wc.row > 0
        THEN [ok |-> TRUE, rows |-> wc.row % U16, cols |-> wc.col % U16]
        ELSE [ok |-> FALSE, rows |-> 0, cols |-> 0]

\* lines 53-69
read_window_size(wc) ==
    IF wc.col > 0 /\ wc.row > 0
        THEN [ok |-> TRUE, rows |-> wc.row % U16, cols |-> wc.col % U16]
        ELSE [ok |-> FALSE, rows |-> 0, cols |-> 0]

\* EditorConfig before term_config has built it
NoConfig == [orig |-> {}, rows |-> 0, cols |-> 0, cx |-> 0, cy |-> 0]

(***************************************************************************)
(* enum Input, and None of Option<Input>.                                  *)
(***************************************************************************)
Control(b) == [t |-> "Control", b |-> b]
Char(c) == [t |-> "Char", c |-> c]
ArrowUp == [t |-> "ArrowUp"]
ArrowDown == [t |-> "ArrowDown"]
ArrowRight == [t |-> "ArrowRight"]
ArrowLeft == [t |-> "ArrowLeft"]
None == [t |-> "None"]

(***************************************************************************)
(* The bytes iterator over stdin: next() yields Some(Ok(b)), Some(Err(_))  *)
(* or None; an item once yielded is consumed.                              *)
(***************************************************************************)
NoItem == -1
IsByte(x) == x >= 0 /\ x <= 255
\* mutant of next: the item is yielded again by the following call
next_no_advance(s, p) ==
    IF p < Len(s) THEN [item |-> s[p + 1], pos |-> p]
                  ELSE [item |-> NoItem, pos |-> p]

next(s, p) ==
    IF p < Len(s) THEN [item |-> s[p + 1], pos |-> p + 1]
                  ELSE [item |-> NoItem, pos |-> p]

\* mutant of is_control: the ASCII control characters only
is_control_ascii(c) == c <= 31 \/ c = 127

\* char::is_control for the code points U+0000..U+00FF (general category Cc)
is_control(c) == c <= 31 \/ (c >= 127 /\ c <= 159)

\* mutant of escape_match: an unrecognized sequence yields its second byte
escape_match_second(b1, b2) ==
    IF b1 = LBracket /\ b2 = ByteA THEN ArrowUp
    ELSE IF b1 = LBracket /\ b2 = ByteB THEN ArrowDown
    ELSE IF b1 = LBracket /\ b2 = ByteC THEN ArrowRight
    ELSE IF b1 = LBracket /\ b2 = ByteD THEN ArrowLeft
    ELSE Char(b2)

\* mutant of escape_match: the finals of ArrowRight and ArrowLeft exchanged
escape_match_swapped(b1, b2) ==
    IF b1 = LBracket /\ b2 = ByteA THEN ArrowUp
    ELSE IF b1 = LBracket /\ b2 = ByteB THEN ArrowDown
    ELSE IF b1 = LBracket /\ b2 = ByteC THEN ArrowLeft
    ELSE IF b1 = LBracket /\ b2 = ByteD THEN ArrowRight
    ELSE Char(b1)

\* the match of lines 165-171 on the two bytes after ESC
escape_match(b1, b2) ==
    IF b1 = LBracket /\ b2 = ByteA THEN ArrowUp
    ELSE IF b1 = LBracket /\ b2 = ByteB THEN ArrowDown
    ELSE IF b1 = LBracket /\ b2 = ByteC THEN ArrowRight
    ELSE IF b1 = LBracket /\ b2 = ByteD THEN ArrowLeft
    ELSE Char(b1)

\* mutant of escape_arm: the bytes of an incomplete escape sequence are
\* left in the stream
escape_arm_pushback(s, p) ==
    LET n1 == next(s, p)
        n2 == next(s, n1.pos)
    IN  IF IsByte(n1.item) /\ IsByte(n2.item)
            THEN [key |-> escape_match(n1.item, n2.item), pos |-> n2.pos]
            ELSE [key |-> Control(ESCAPE), pos |-> p]

\* mutant of escape_arm: an incomplete escape sequence yields no event
escape_arm_lone_dropped(s, p) ==
    LET n1 == next(s, p)
        n2 == next(s, n1.pos)
    IN  IF IsByte(n1.item) /\ IsByte(n2.item)
            THEN [key |-> escape_match(n1.item, n2.item), pos |-> n2.pos]
            ELSE [key |-> None, pos |-> n2.pos]

\* the ESCAPE arm, lines 163-175: both next() calls of the tuple are made
\* before the pattern is tried
escape_arm(s, p) ==
    LET n1 == next(s, p)
        n2 == next(s, n1.pos)
    IN  IF IsByte(n1.item) /\ IsByte(n2.item)
            THEN [key |-> escape_match(n1.item, n2.item), pos |-> n2.pos]
            ELSE [key |-> Control(ESCAPE), pos |-> n2.pos]

\* read_key, lines 158-181: the event decoded at position p of s and the
\* position after it
read_key(s, p) ==
    LET n0 == next(s, p)
    IN  IF IsByte(n0.item)
            THEN IF n0.item = ESCAPE THEN escape_arm(s, n0.pos)
                 ELSE IF is_control(n0.item)
                     THEN [key |-> Control(n0.item), pos |-> n0.pos]
                     ELSE [key |-> Char(n0.item), pos |-> n0.pos]
            ELSE [key |-> None, pos |-> n0.pos]

(***************************************************************************)
(* process_key, lines 94-122: the value returned, the configuration after  *)
(* the call and whether the arm prints to standard output.                 *)
(***************************************************************************)
\* mutants of the arms: a guard dropped, a bound off by one
arrow_up_unguarded(conf) == [conf EXCEPT !.cy = Sub16(conf.cy, 1)]

arrow_down_off_by_one(conf) ==
    IF conf.cy < conf.rows THEN [conf EXCEPT !.cy = Add16(conf.cy, 1)] ELSE conf

arrow_right_off_by_one(conf) ==
    IF conf.cx < conf.cols THEN [conf EXCEPT !.cx = Add16(conf.cx, 1)] ELSE conf

\* the arms of the match, lines 100-119
arrow_up(conf) ==
    IF conf.cy > 0 THEN [conf EXCEPT !.cy = Sub16(conf.cy, 1)] ELSE conf

arrow_down(conf) ==
    IF conf.cy < Sub16(conf.rows, 1) THEN [conf EXCEPT !.cy = Add16(conf.cy, 1)] ELSE conf

arrow_left(conf) ==
    IF conf.cx > 0 THEN [conf EXCEPT !.cx = Sub16(conf.cx, 1)] ELSE conf

arrow_right(conf) ==
    IF conf.cx < Sub16(conf.cols, 1) THEN [conf EXCEPT !.cx = Add16(conf.cx, 1)] ELSE conf

\* mutant of process_key: the quit arm matches the value 0x11 of a Char too
process_key_quit_any(i, conf) ==
    IF (i.t = "Control" /\ i.b = ctrl(ByteQ)) \/ (i.t = "Char" /\ i.c = ctrl(ByteQ))
        THEN [ret |-> FALSE, conf |-> conf, prints |-> FALSE]
    ELSE IF i.t = "Control" \/ i.t = "Char"
        THEN [ret |-> TRUE, conf |-> conf, prints |-> TRUE]
    ELSE IF i.t = "ArrowUp"
        THEN [ret |-> TRUE, conf |-> arrow_up(conf), prints |-> FALSE]
    ELSE IF i.t = "ArrowDown"
        THEN [ret |-> TRUE, conf |-> arrow_down(conf), prints |-> FALSE]
    ELSE IF i.t = "ArrowLeft"
        THEN [ret |-> TRUE, conf |-> arrow_left(conf), prints |-> FALSE]
    ELSE [ret |-> TRUE, conf |-> arrow_right(conf), prints |-> FALSE]

\* lines 94-122
process_key(i, conf) ==
    IF i.t = "Control" /\ i.b = ctrl(ByteQ)
        THEN [ret |-> FALSE, conf |-> conf, prints |-> FALSE]
    ELSE IF i.t = "Control" \/ i.t = "Char"
        THEN [ret |-> TRUE, conf |-> conf, prints |-> TRUE]
    ELSE IF i.t = "ArrowUp"
        THEN [ret |-> TRUE, conf |-> arrow_up(conf), prints |-> FALSE]
    ELSE IF i.t = "ArrowDown"
        THEN [ret |-> TRUE, conf |-> arrow_down(conf), prints |-> FALSE]
    ELSE IF i.t = "ArrowLeft"
        THEN [ret |-> TRUE, conf |-> arrow_left(conf), prints |-> FALSE]
    ELSE [ret |-> TRUE, conf |-> arrow_right(conf), prints |-> FALSE]

(***************************************************************************)
(* draw_rows, lines 125-151: the buffer, one element per character, a      *)
(* control sequence written as the characters it is made of.               *)
(***************************************************************************)
\* env!("CARGO_PKG_VERSION"): the version of the crate, taken to be 0.1.0
VERSION == <<"0", ".", "1", ".", "0">>
WelcomePrefix == <<"W", "e", "l", "c", "o", "m", "e", " ", "t", "o", " ", "F", "a", "n", "t", "o", " ", "e", "d", "i", "t", "o", "r", " ", "v", "e", "r", "s", "i", "o", "n", " ">>
Digits == <<"0", "1", "2", "3", "4", "5", "6", "7", "8", "9">>

RECURSIVE Decimal(_)
Decimal(n) ==
    IF n < 10 THEN <<Digits[n + 1]>>
              ELSE Decimal(n \div 10) \o <<Digits[(n % 10) + 1]>>

Repeat(x, n) == IF n <= 0 THEN <<>> ELSE [k \in 1..n |-> x]

HideCursor == <<"ESC", "[", "?", "2", "5", "l">>
CursorHome == <<"ESC", "[", "H">>
EraseLine == <<"ESC", "[", "K">>
LineBreak == <<"\r", "\n">>
ShowCursor == <<"ESC", "[", "?", "2", "5", "h">>
CursorTo(r, c) == <<"ESC", "[">> \o Decimal(r) \o <<";">> \o Decimal(c) \o <<"H">>

\* lines 131-138: the banner row
banner_row(conf) ==
    LET welcome == WelcomePrefix \o VERSION
        len == Min(conf.cols, Len(welcome))
        padding == (conf.cols - len) \div 2
    IN  (IF padding > 0 THEN <<"~">> \o Repeat(" ", padding - 1) ELSE <<>>)
        \o SubSeq(welcome, 1, len - 1)

\* mutant of draw_row: a line break after every row
draw_row_break_always(y, conf) ==
    (IF y = conf.rows \div 3 THEN banner_row(conf) ELSE <<"~">>)
    \o EraseLine
    \o (IF y < conf.rows THEN LineBreak ELSE <<>>)

\* lines 130-145: one row of the frame
draw_row(y, conf) ==
    (IF y = conf.rows \div 3 THEN banner_row(conf) ELSE <<"~">>)
    \o EraseLine
    \o (IF y < Sub16(conf.rows, 1) THEN LineBreak ELSE <<>>)

RECURSIVE draw_rows_from(_, _)
draw_rows_from(y, conf) ==
    IF y >= conf.rows THEN <<>> ELSE draw_row(y, conf) \o draw_rows_from(y + 1, conf)

\* mutant of draw_rows: the cursor position emitted zero-indexed
draw_rows_zero_indexed(conf) ==
    HideCursor \o CursorHome \o draw_rows_from(0, conf)
    \o CursorTo(conf.cy, conf.cx) \o ShowCursor

\* lines 125-151
draw_rows(conf) ==
    HideCursor \o CursorHome \o draw_rows_from(0, conf)
    \o CursorTo(Add16(conf.cy, 1), Add16(conf.cx, 1)) \o ShowCursor

(***************************************************************************)
(* The sessions explored: what the terminal reports and what standard      *)
(* input delivers.                                                         *)
(***************************************************************************)
Arrows == { <<ESCAPE, LBracket, ByteA>>, <<ESCAPE, LBracket, ByteB>>,
            <<ESCAPE, LBracket, ByteC>>, <<ESCAPE, LBracket, ByteD>> }

\* pieces of input: the arrow keys, Ctrl-Q, ESC, a printable byte, a control
\* byte, '[' and a failed read
Chunks == Arrows \cup { <<CtrlQ>>, <<ESCAPE>>, <<120>>, <<1>>,
                        <<LBracket>>, <<IoErr>> }

RECURSIVE Concats(_, _)
Concats(pieces, n) ==
    IF n = 0 THEN { <<>> }
    ELSE LET shorter == Concats(pieces, n - 1)
         IN  shorter \cup { c \o t : c \in pieces, t \in shorter }

GeneralSessions ==
    { [ws |-> [row |-> r, col |-> c], stdin |-> i] :
        r \in 0..MaxRows, c \in 0..MaxCols, i \in Concats(Chunks, MaxKeys) }

\* arrow keys, Ctrl-Q, then what was typed after it
E2ESessions ==
    { [ws |-> [row |-> r, col |-> c], stdin |-> a \o <<CtrlQ>> \o t] :
        r \in 1..MaxE2ERows, c \in 1..MaxCols,
        a \in Concats(Arrows, MaxArrows),
        t \in { <<>>, <<120>>, <<ESCAPE, LBracket, ByteB>> } }

\* every byte value at the start of an event, alone or followed by a byte
ByteSessions ==
    { [ws |-> [row |-> 1, col |-> 1], stdin |-> <<b>> \o t] :
        b \in 0..255, t \in { <<>>, <<120>>, <<ESCAPE>> } }

RECURSIVE Times(_, _)
Times(piece, n) == IF n = 0 THEN <<>> ELSE piece \o Times(piece, n - 1)

\* windows up to the size of a real terminal, with no input or with the
\* cursor walked down and to the right
RenderSessions ==
    { [ws |-> [row |-> r, col |-> c], stdin |-> i] :
        r \in 1..MaxRenderRows, c \in 1..MaxRenderCols,
        i \in { <<>>, Times(<<ESCAPE, LBracket, ByteB>>, MaxRenderKeys)
                        \o Times(<<ESCAPE, LBracket, ByteC>>, MaxRenderKeys) } }

\* one-row windows whose frame is as long as the buffer of standard output,
\* or just shorter
WideSessions ==
    { [ws |-> [row |-> 1, col |-> c], stdin |-> i] :
        c \in (MaxWideCols - 2)..MaxWideCols, i \in { <<>>, <<CtrlQ>>, <<120>> } }

\* the sessions of the termination check: one window, every short stream
LiveSessions ==
    { [ws |-> [row |-> MaxRows, col |-> MaxCols], stdin |-> i] :
        i \in Concats(Chunks, MaxLiveKeys) }

\* the process at the entry of main, in one of the sessions S
InitFrom(S) ==
    /\ term \in TermStates
    /\ \E e \in S : ws = e.ws /\ stdin = e.stdin
    /\ pos = 0
    /\ config = NoConfig
    /\ key = None
    /\ pc = "start"
    /\ res = "none"
    /\ exitCode = -1
    /\ snap = {}
    /\ restores = 0
    /\ restoreFailed = FALSE
    /\ frames = 0
    /\ screen = <<>>
    /\ readErr = FALSE
    /\ quit = FALSE
    /\ continued = 0

Init ==
    \/ InitFrom(GeneralSessions)
    \/ InitFrom(E2ESessions)
    \/ InitFrom(ByteSessions)
    \/ InitFrom(RenderSessions)
    \/ InitFrom(WideSessions)

(***************************************************************************)
(* The steps of run() and main().                                          *)
(***************************************************************************)
\* a failed print!/println! panics: the process ends with status 101 and
\* nothing after the panic runs
Panic ==
    /\ pc' = "exited"
    /\ exitCode' = PanicCode

\* `?` on an Err: run() returns it to main
Fail ==
    /\ res' = "Err"
    /\ pc' = "refresh"

\* term_config, lines 71-81 (called at line 185)
TermConfig ==
    /\ pc = "start"
    /\ \E getOk \in BOOLEAN :
        IF ~getOk
            THEN Fail /\ UNCHANGED << snap, config >>
            ELSE /\ snap' = {term}
                 /\ LET w == read_window_size(ws)
                    IN  IF w.ok
                            THEN /\ config' = [orig |-> term, rows |-> w.rows,
                                               cols |-> w.cols, cx |-> 0, cy |-> 0]
                                 /\ pc' = "raw"
                                 /\ UNCHANGED res
                            ELSE Fail /\ UNCHANGED config
    /\ UNCHANGED << term, ws, stdin, pos, key, exitCode, restores, restoreFailed,
                    frames, screen, readErr, quit, continued >>

\* enable_raw_mode, lines 40-51 (called at line 189)
EnableRawMode ==
    /\ pc = "raw"
    /\ \E outcome \in {"ok", "tcgetattr fails", "tcsetattr fails"} :
        IF outcome = "ok"
            THEN /\ term' = RawAttrs(term)
                 /\ pc' = "draw"
                 /\ UNCHANGED res
            ELSE Fail /\ UNCHANGED term
    /\ UNCHANGED << ws, stdin, pos, config, key, exitCode, snap, restores,
                    restoreFailed, frames, screen, readErr, quit, continued >>

\* print! of text to a standard output whose buffer is empty: the line
\* buffered writer hands the text to write(1) at once when it holds a line
\* break or is as long as the buffer, and otherwise only stores it
writes_through(text) ==
    \/ \E k \in 1..Len(text) : text[k] = "\n"
    \/ Len(text) >= StdoutCapacity

\* draw_rows, lines 125-151 (called at line 190). print! (line 149) panics
\* if its write to the terminal fails; a frame that stays in the buffer
\* cannot fail, as the result of the flush at line 150 is discarded.
DrawRows ==
    /\ pc = "draw"
    /\ \E written \in BOOLEAN :
        IF written \/ ~writes_through(draw_rows(config))
            THEN /\ frames' = frames + 1
                 /\ screen' = draw_rows(config)
                 /\ pc' = "read"
                 /\ UNCHANGED exitCode
            ELSE Panic /\ UNCHANGED << frames, screen >>
    /\ UNCHANGED << term, ws, stdin, pos, config, key, res, snap, restores,
                    restoreFailed, readErr, quit, continued >>

\* read_key, lines 158-181 (the loop condition at line 192)
ReadKey ==
    /\ pc = "read"
    /\ LET r == read_key(stdin, pos)
       IN  /\ key' = r.key
           /\ pos' = r.pos
           /\ readErr' = (readErr \/ \E k \in (pos + 1)..r.pos : stdin[k] = IoErr)
           /\ pc' = IF r.key = None THEN "println" ELSE "process"
    /\ UNCHANGED << term, ws, stdin, config, res, exitCode, snap, restores,
                    restoreFailed, frames, screen, quit, continued >>

\* process_key and the loop body, lines 193-197
ProcessKey ==
    /\ pc = "process"
    /\ LET r == process_key(key, config)
       IN  \E written \in (IF r.prints THEN BOOLEAN ELSE {TRUE}) :
            IF written
                THEN /\ config' = r.conf
                     /\ quit' = ~r.ret
                     /\ continued' = IF r.ret THEN continued + 1 ELSE continued
                     /\ pc' = IF r.ret THEN "read" ELSE "println"
                     /\ UNCHANGED exitCode
                ELSE Panic /\ UNCHANGED << config, quit, continued >>
    /\ UNCHANGED << term, ws, stdin, pos, key, res, snap, restores,
                    restoreFailed, frames, screen, readErr >>

\* println!(), line 198
Println ==
    /\ pc = "println"
    /\ \E written \in BOOLEAN :
        IF written THEN pc' = "restore" /\ UNCHANGED exitCode ELSE Panic
    /\ UNCHANGED << term, ws, stdin, pos, config, key, res, snap, restores,
                    restoreFailed, frames, screen, readErr, quit, continued >>

\* tcsetattr(STDIN_FILENO, TCSAFLUSH, &config.orig)?, lines 200-201
Restore ==
    /\ pc = "restore"
    /\ restores' = restores + 1
    /\ \E setOk \in BOOLEAN :
        IF setOk
            THEN /\ term' = config.orig
                 /\ res' = "Ok"
                 /\ UNCHANGED restoreFailed
            ELSE /\ res' = "Err"
                 /\ restoreFailed' = TRUE
                 /\ UNCHANGED term
    /\ pc' = "refresh"
    /\ UNCHANGED << ws, stdin, pos, config, key, exitCode, snap, frames,
                    screen, readErr, quit, continued >>

\* refresh_screen, lines 153-156 (called at line 206): the text has no line
\* break, so print! only buffers it, and the result of the flush is
\* discarded: the step cannot fail
RefreshScreen ==
    /\ pc = "refresh"
    /\ pc' = "report"
    /\ UNCHANGED << term, ws, stdin, pos, config, key, res, exitCode, snap,
                    restores, restoreFailed, frames, screen, readErr, quit,
                    continued >>

\* the rest of main, lines 207-226
MainExit ==
    /\ pc = "report"
    /\ pc' = "exited"
    /\ IF res = "Err"
           THEN \E stderrOk \in BOOLEAN :
                    exitCode' = IF stderrOk THEN 1 ELSE PanicCode
           ELSE exitCode' = 0
    /\ UNCHANGED << term, ws, stdin, pos, config, key, res, snap, restores,
                    restoreFailed, frames, screen, readErr, quit, continued >>

Next ==
    \/ TermConfig
    \/ EnableRawMode
    \/ DrawRows
    \/ ReadKey
    \/ ProcessKey
    \/ Println
    \/ Restore
    \/ RefreshScreen
    \/ MainExit

Spec == Init /\ [][Next]_vars

\* The process is scheduled until it exits: every step of run() and main()
\* is a system call or a computation that returns, and a read of standard
\* input returns a byte, an error or end of input.
FairSpec == InitFrom(LiveSessions) /\ [][Next]_vars /\ WF_vars(Next)

(***************************************************************************)
(* Properties.                                                             *)
(***************************************************************************)
Max(a, b) == IF a > b THEN a ELSE b
Item(k) == IF k >= 1 /\ k <= Len(stdin) THEN stdin[k] ELSE NoItem
InLoop == pc \in {"read", "process"}

\* C1: when the process has terminated, the terminal attributes equal the
\* attributes captured by term_config before raw mode was enabled (the case
\* of a failing restore call itself set aside, as the spec accepts it).
C1_TerminalRestoredAtExit ==
    (pc = "exited" /\ ~restoreFailed) => \A orig \in snap : term = orig

\* C2: on every exit path after the snapshot was captured, the restore of
\* the original attributes is invoked exactly once before termination, and
\* never while the key loop is running.
C2_RestoreExactlyOnce ==
    /\ (pc = "exited" /\ snap # {}) => restores = 1
    /\ InLoop => restores = 0

\* C3: once the configuration is built, rows >= 1 and cols >= 1, the cursor
\* satisfies 0 <= cx <= cols-1 and 0 <= cy <= rows-1, and the arithmetic of
\* the arm process_key is about to run neither underflows nor overflows
\* (the coordinates move by at most one, in the integers).
C3_CursorInBounds ==
    config # NoConfig =>
        /\ config.rows >= 1 /\ config.cols >= 1
        /\ 0 <= config.cx /\ config.cx <= config.cols - 1
        /\ 0 <= config.cy /\ config.cy <= config.rows - 1
        /\ pc = "process" =>
            LET after == process_key(key, config).conf
            IN  /\ after.cx - config.cx \in {-1, 0, 1}
                /\ after.cy - config.cy \in {-1, 0, 1}
                /\ after.cx <= after.cols - 1
                /\ after.cy <= after.rows - 1

\* C3 witness: on a window of two rows a second ArrowDown has been applied
\* with the cursor already on the last row.
C3_Witness ==
    /\ pc = "read" /\ pos = 6 /\ key = ArrowDown
    /\ SubSeq(stdin, 1, 6) = <<ESCAPE, LBracket, ByteB, ESCAPE, LBracket, ByteB>>
    /\ config.rows = 2 /\ config.cy = 1

\* C4: a directional event changes exactly one coordinate by one step when
\* the cursor is not at the corresponding boundary and changes nothing at
\* the boundary; the other coordinate, the geometry and the snapshot are
\* never changed.
C4_ArrowStep ==
    [][ (pc = "process" /\ key.t \in {"ArrowUp", "ArrowDown", "ArrowLeft", "ArrowRight"}) =>
          /\ pc' = "read"
          /\ config'.rows = config.rows /\ config'.cols = config.cols
          /\ config'.orig = config.orig
          /\ key = ArrowUp =>
                /\ config'.cy = IF config.cy > 0 THEN config.cy - 1 ELSE config.cy
                /\ config'.cx = config.cx
          /\ key = ArrowDown =>
                /\ config'.cy = IF config.cy < config.rows - 1
                                    THEN config.cy + 1 ELSE config.cy
                /\ config'.cx = config.cx
          /\ key = ArrowLeft =>
                /\ config'.cx = IF config.cx > 0 THEN config.cx - 1 ELSE config.cx
                /\ config'.cy = config.cy
          /\ key = ArrowRight =>
                /\ config'.cx = IF config.cx < config.cols - 1
                                    THEN config.cx + 1 ELSE config.cx
                /\ config'.cy = config.cy
      ]_vars

\* C4 witness: ArrowUp has been applied twice at cy = 0 and cy is still 0.
C4_Witness ==
    /\ pc = "read" /\ pos = 6 /\ key = ArrowUp
    /\ SubSeq(stdin, 1, 6) = <<ESCAPE, LBracket, ByteA, ESCAPE, LBracket, ByteA>>
    /\ config.cy = 0 /\ config.cx = 0

\* C5: whenever the loop is about to read a key, draw_rows has been invoked
\* once at start and once after every event process_key continued on, and
\* the screen shows the current state.
C5_RedrawAfterContinue ==
    pc = "read" => (frames = continued + 1 /\ screen = draw_rows(config))

\* the final bytes of the arrow sequences and the events the spec gives them
ArrowFinals == {ByteA, ByteB, ByteC, ByteD}
ArrowOf(f) ==
    IF f = ByteA THEN ArrowUp
    ELSE IF f = ByteB THEN ArrowDown
    ELSE IF f = ByteC THEN ArrowRight
    ELSE ArrowLeft

\* C6: when read_key is called with ESC, '[' and a final byte in {A,B,C,D}
\* next in the stream, it yields ArrowUp, ArrowDown, ArrowRight, ArrowLeft
\* respectively and consumes exactly those three bytes.
C6_ArrowDecoded ==
    [][ (pc = "read" /\ Item(pos + 1) = ESCAPE /\ Item(pos + 2) = LBracket
            /\ Item(pos + 3) \in ArrowFinals) =>
          /\ key' = ArrowOf(Item(pos + 3))
          /\ pos' = pos + 3
          /\ pc' = "process"
      ]_vars

\* C6 witness: ESC [ C was decoded as ArrowRight and the byte after it has
\* been decoded as an event of its own.
C6_Witness ==
    /\ pc = "process" /\ pos = 4 /\ key = Char(120)
    /\ SubSeq(stdin, 1, 4) = <<ESCAPE, LBracket, ByteC, 120>>
    /\ continued = 1 /\ config.cols = 2 /\ config.cx = 1

\* C7: when read_key reads ESC and the stream ends right after it, the
\* event is Control(0x1B); and a call at the end of the stream yields no
\* event.
C7_LoneEscape ==
    [][ /\ (pc = "read" /\ Item(pos + 1) = ESCAPE /\ Len(stdin) = pos + 1) =>
            (key' = Control(ESCAPE) /\ pos' = Len(stdin) /\ pc' = "process")
        /\ (pc = "read" /\ pos = Len(stdin)) =>
            (key' = None /\ pos' = pos /\ pc' = "println")
      ]_vars

\* C7 witness: the stream was the single byte ESC, its event was handled
\* and the next call has returned None.
C7_Witness ==
    /\ stdin = <<ESCAPE>> /\ pos = 1 /\ continued = 1
    /\ key = None /\ pc = "println"

\* C8: byte 0x11 at the start of an event is decoded as Control(0x11) and
\* process_key returns false for it, which stops the loop; for every other
\* Control event and every Char event process_key returns true, the cursor
\* is unchanged, and the loop goes on to the next read (unless the print of
\* the arm fails, which ends the process).
C8_QuitAndOthers ==
    [][ /\ (pc = "read" /\ Item(pos + 1) = 17) => key' = Control(17)
        /\ (pc = "process" /\ key = Control(17)) =>
            (~process_key(key, config).ret /\ quit' /\ pc' = "println"
                /\ config' = config)
        /\ (pc = "process" /\ key.t \in {"Control", "Char"} /\ key # Control(17)) =>
            /\ process_key(key, config).ret
            /\ config'.cx = config.cx /\ config'.cy = config.cy
            /\ ~quit'
            /\ pc' \in {"read", "exited"}
            /\ pc' = "read" => continued' = continued + 1
            /\ pc' = "exited" => exitCode' = PanicCode
      ]_vars

\* C8 witness: after a key other than Ctrl-Q was continued on, Ctrl-Q has
\* stopped the loop.
C8_Witness ==
    /\ stdin = <<1, 120, 17>> /\ pos = 3 /\ continued = 2
    /\ quit /\ pc = "println" /\ key = Control(17)

\* the stream starts with n arrow sequences
RECURSIVE LeadingArrows(_, _)
LeadingArrows(s, n) ==
    IF /\ Len(s) >= 3 * n + 3
       /\ s[3 * n + 1] = ESCAPE /\ s[3 * n + 2] = LBracket
       /\ s[3 * n + 3] \in ArrowFinals
        THEN LeadingArrows(s, n + 1)
        ELSE n

\* arrow sequences followed by Ctrl-Q (and whatever follows it)
ArrowsThenQuit(s) ==
    LET n == LeadingArrows(s, 0) IN Len(s) >= 3 * n + 1 /\ s[3 * n + 1] = 17

\* the cursor after the first n arrow events of s, by clamping each step
RECURSIVE ClampedFold(_, _, _, _)
ClampedFold(s, n, rows, cols) ==
    IF n = 0 THEN [x |-> 0, y |-> 0]
    ELSE LET c == ClampedFold(s, n - 1, rows, cols)
             f == s[3 * n]
         IN  IF f = ByteA THEN [c EXCEPT !.y = Max(0, c.y - 1)]
             ELSE IF f = ByteB THEN [c EXCEPT !.y = Min(rows - 1, c.y + 1)]
             ELSE IF f = ByteC THEN [c EXCEPT !.x = Min(cols - 1, c.x + 1)]
             ELSE [c EXCEPT !.x = Max(0, c.x - 1)]

DownDownQuit == <<ESCAPE, LBracket, ByteB, ESCAPE, LBracket, ByteB, 17>>

\* C9: for an input of arrow sequences followed by Ctrl-Q, the loop never
\* consumes a byte after Ctrl-Q, and when it has stopped it has stopped with
\* Quit, with Ctrl-Q the last byte consumed and the cursor equal to the
\* clamped fold of the arrow events; ESC[B ESC[B Ctrl-Q with rows = 10 ends
\* with the cursor at x = 0, y = 2.
C9_EndToEnd ==
    (ArrowsThenQuit(stdin) /\ config # NoConfig) =>
        LET n == LeadingArrows(stdin, 0)
            c == ClampedFold(stdin, n, config.rows, config.cols)
        IN  /\ pos <= 3 * n + 1
            /\ pc \in {"println", "restore"} =>
                /\ quit /\ key = Control(17)
                /\ pos = 3 * n + 1
                /\ continued = n
                /\ config.cx = c.x /\ config.cy = c.y
            /\ (pc \in {"println", "restore"} /\ stdin = DownDownQuit /\ config.rows = 10) =>
                (config.cx = 0 /\ config.cy = 2)

\* C9 witness: down, down, quit on ten rows has left the loop.
C9_Witness ==
    /\ stdin = DownDownQuit /\ ws.row = 10 /\ pc = "restore"
    /\ quit /\ config.cx = 0 /\ config.cy = 2 /\ pos = 7

\* C9 witness of clamping and of bytes left unread after Ctrl-Q
C9_WitnessClamped ==
    /\ pc = "restore" /\ quit /\ pos = 10 /\ Len(stdin) = 13
    /\ SubSeq(stdin, 1, 9) = <<ESCAPE, LBracket, ByteC, ESCAPE, LBracket, ByteC,
                               ESCAPE, LBracket, ByteC>>
    /\ config.cols = 2 /\ config.cx = 1

\* C10: a read failure on standard input during the key loop makes the
\* process exit with code 1 (runs ended by a panic set aside).
C10_ReadFailureExitsOne ==
    (pc = "exited" /\ readErr /\ exitCode # PanicCode) => exitCode = 1

\* C11: when the window-size query reports zero rows or zero columns,
\* run() fails before enable_raw_mode: no configuration is built, the
\* terminal attributes are never modified, no frame is rendered, no key is
\* read, and the process exits with code 1 (101 if the report of the error
\* on standard error fails, lines 212-221), never with 0.
C11_ZeroGeometryFails ==
    (ws.row = 0 \/ ws.col = 0) =>
        /\ pc \in {"start", "refresh", "report", "exited"}
        /\ config = NoConfig
        /\ term \in TermStates /\ \A orig \in snap : term = orig
        /\ frames = 0 /\ screen = <<>>
        /\ pos = 0 /\ key = None
        /\ restores = 0
        /\ pc = "start" => res = "none"
        /\ pc \in {"refresh", "report"} => res = "Err"
        /\ pc = "exited" => exitCode \in {1, PanicCode}

\* C11 witness: the terminal reported zero rows, the snapshot had been
\* captured, and the process has exited with code 1.
C11_Witness ==
    /\ ws.row = 0 /\ ws.col = 2 /\ snap # {}
    /\ pc = "exited" /\ exitCode = 1 /\ res = "Err"

(***************************************************************************)
(* Reading a frame back: its lines, the content of a line, the cursor      *)
(* position it ends with.                                                  *)
(***************************************************************************)
\* the frame of the initial render is on the screen
FrameDrawn == pc = "read" /\ pos = 0 /\ frames = 1

\* index of the first element tok of buf at or after i, Len(buf) + 1 if none
FirstAt(buf, tok, i) ==
    LET hits == { k \in i..Len(buf) : buf[k] = tok }
    IN  IF hits = {} THEN Len(buf) + 1
        ELSE CHOOSE k \in hits : \A j \in hits : k <= j

\* index of the last element tok of buf at or before i, 0 if none
LastAt(buf, tok, i) ==
    LET hits == { k \in 1..i : buf[k] = tok }
    IN  IF hits = {} THEN 0
        ELSE CHOOSE k \in hits : \A j \in hits : k >= j

\* buf cut at every carriage return + line feed
RECURSIVE SplitLines(_)
SplitLines(buf) ==
    LET i == FirstAt(buf, "\r", 1)
    IN  IF i > Len(buf) THEN << buf >>
        ELSE << SubSeq(buf, 1, i - 1) >> \o SplitLines(SubSeq(buf, i + 2, Len(buf)))

\* the lines of a frame, after hide-cursor and move-to-origin
FrameLines(f) == SplitLines(SubSeq(f, 10, Len(f)))

\* what a line shows: everything before its first control sequence
Content(line) == SubSeq(line, 1, FirstAt(line, "ESC", 1) - 1)

\* what follows the content of a line
AfterContent(line) == SubSeq(line, FirstAt(line, "ESC", 1), Len(line))

DigitValue(d) ==
    CASE d = "0" -> 0 [] d = "1" -> 1 [] d = "2" -> 2 [] d = "3" -> 3
      [] d = "4" -> 4 [] d = "5" -> 5 [] d = "6" -> 6 [] d = "7" -> 7
      [] d = "8" -> 8 [] d = "9" -> 9 [] OTHER -> -1

RECURSIVE ParseDecimal(_)
ParseDecimal(ds) ==
    IF Len(ds) = 0 THEN 0
    ELSE 10 * ParseDecimal(SubSeq(ds, 1, Len(ds) - 1)) + DigitValue(ds[Len(ds)])

AllDigits(ds) ==
    /\ Len(ds) >= 1
    /\ \A k \in 1..Len(ds) : DigitValue(ds[k]) >= 0
    /\ Len(ds) > 1 => ds[1] # "0"

\* C12: the banner is on exactly the row with index rows/3, every other row
\* shows a single '~', and the rendered width of the banner line equals cols.
C12_BannerWidthIsCols ==
    FrameDrawn =>
        LET lines == FrameLines(screen)
        IN  /\ Len(lines) = config.rows
            /\ \A y \in 0..(config.rows - 1) :
                 (y # config.rows \div 3) => Content(lines[y + 1]) = <<"~">>
            /\ Len(Content(lines[(config.rows \div 3) + 1])) = config.cols

\* the code points of general category Cc below U+0100: C0, DEL and C1
ControlBytes == (0..31) \cup {127} \cup (128..159)

\* C13: a byte b other than ESC read at the start of an event yields
\* Control(b) if b is a control character and Char(b) otherwise, and is the
\* only byte consumed for that event.
C13_SingleByteEvent ==
    [][ (pc = "read" /\ IsByte(Item(pos + 1)) /\ Item(pos + 1) # 27) =>
          /\ key' = IF Item(pos + 1) \in ControlBytes
                        THEN Control(Item(pos + 1)) ELSE Char(Item(pos + 1))
          /\ pos' = pos + 1
          /\ pc' = "process"
      ]_vars

\* C13 witness: byte 0x9F was decoded as a control event and the byte after
\* it, 'x', as a character event.
C13_Witness ==
    /\ stdin = <<159, 120>> /\ pos = 2 /\ pc = "process"
    /\ key = Char(120) /\ continued = 1

\* C14: the key loop terminates on every finite input: a call of read_key
\* at the end of the stream yields no event and ends the loop, every event
\* it returns consumes at least one and at most three items, and from the
\* loop the process reaches the restore step (or ends in a panic of a
\* print), whether or not Ctrl-Q was received.
C14_LoopTerminates ==
    /\ [][ /\ (pc = "read" /\ pos = Len(stdin)) =>
                (key' = None /\ pos' = pos /\ pc' = "println")
           /\ (pc = "read" /\ key' # None) => (pos' - pos) \in 1..3
           /\ pc = "println" => pc' \in {"restore", "exited"}
         ]_vars
    /\ (pc = "read") ~> (pc = "restore" \/ pc = "exited")

\* C14 witness: the input ended without Ctrl-Q, the loop has stopped and
\* the process is at the restore step.
C14_Witness ==
    /\ stdin = <<120, ESCAPE, LBracket, ByteA>> /\ pos = 4
    /\ key = None /\ ~quit /\ continued = 2 /\ pc = "restore"

\* ESC is next in the stream and two bytes follow it
EscapeWithTwoBytes ==
    /\ Item(pos + 1) = 27 /\ IsByte(Item(pos + 2)) /\ IsByte(Item(pos + 3))

IsArrowPair(b1, b2) == b1 = 91 /\ b2 \in ArrowFinals

\* C15: when ESC is followed by two bytes b1, b2 that do not form an arrow
\* sequence, read_key yields the single event Char(b1) and consumes all
\* three bytes, so that b2 is discarded and the next event starts after it;
\* the Char event leaves the cursor where it is.
C15_UnrecognizedEscape ==
    [][ /\ (pc = "read" /\ EscapeWithTwoBytes
                /\ ~IsArrowPair(Item(pos + 2), Item(pos + 3))) =>
             (key' = Char(Item(pos + 2)) /\ pos' = pos + 3 /\ pc' = "process")
        /\ (pc = "process" /\ key.t = "Char") =>
             (config'.cx = config.cx /\ config'.cy = config.cy)
      ]_vars

\* C15 witness: ESC x ESC was decoded as Char('x') and handled with the
\* cursor unmoved; the second ESC was discarded, so the '[' after it has
\* started an event of its own instead of an arrow sequence.
C15_Witness ==
    /\ stdin = <<ESCAPE, 120, ESCAPE, LBracket, ByteA>>
    /\ pos = 4 /\ key = Char(LBracket) /\ pc = "process"
    /\ continued = 1 /\ config.cx = 0 /\ config.cy = 0

\* C16: a frame is hide-cursor, move-to-origin, then one line per row in
\* order, each the content of the row followed by erase-to-end-of-line,
\* with a line break after every row but the last (rows - 1 line breaks);
\* the content of every row other than the banner row is the single
\* character '~'; after the last row only the cursor sequences follow.
C16_FrameStructure ==
    FrameDrawn =>
        LET lines == FrameLines(screen)
            breaks == { k \in 1..Len(screen) : screen[k] = "\r" }
        IN  /\ Len(screen) >= 9
            /\ SubSeq(screen, 1, 9) = <<"ESC", "[", "?", "2", "5", "l", "ESC", "[", "H">>
            /\ Cardinality(breaks) = config.rows - 1
            /\ \A k \in breaks : screen[k + 1] = "\n" /\ screen[k - 1] = "K"
            /\ Len(lines) = config.rows
            /\ \A y \in 0..(config.rows - 1) :
                 LET rest == AfterContent(lines[y + 1])
                 IN  /\ Len(rest) >= 3
                     /\ SubSeq(rest, 1, 3) = <<"ESC", "[", "K">>
                     /\ y < config.rows - 1 => Len(rest) = 3
                     /\ y = config.rows - 1 =>
                            (Len(rest) > 3 /\ rest[4] = "ESC" /\ rest[Len(rest)] = "h")
                     /\ y # config.rows \div 3 => Content(lines[y + 1]) = <<"~">>

\* C16 witness: a frame of 24 rows is on the screen, with 23 line breaks.
C16_Witness ==
    /\ FrameDrawn /\ config.rows = 24 /\ config.cols = 80
    /\ Len(FrameLines(screen)) = 24
    /\ Cardinality({ k \in 1..Len(screen) : screen[k] = "\n" }) = 23
    /\ Content(FrameLines(screen)[24]) = <<"~">>

\* the cursor position a frame ends with: the sequence before show-cursor
CursorSeq(f) == SubSeq(f, LastAt(f, "ESC", Len(f) - 6), Len(f) - 6)
CursorRowDigits(f) ==
    LET q == CursorSeq(f) IN SubSeq(q, 3, FirstAt(q, ";", 1) - 1)
CursorColDigits(f) ==
    LET q == CursorSeq(f) IN SubSeq(q, FirstAt(q, ";", 1) + 1, Len(q) - 1)

\* a frame ends with ESC [ row ; col H for the one-indexed cursor of conf,
\* after the erase-to-end-of-line of the last row and before show-cursor
CursorTail(f, conf) ==
    LET q == CursorSeq(f)
        start == LastAt(f, "ESC", Len(f) - 6)
    IN  /\ Len(f) >= 21
        /\ SubSeq(f, Len(f) - 5, Len(f)) = <<"ESC", "[", "?", "2", "5", "h">>
        /\ start >= 4
        /\ SubSeq(f, start - 3, start - 1) = <<"ESC", "[", "K">>
        /\ q[1] = "ESC" /\ q[2] = "[" /\ q[Len(q)] = "H"
        /\ AllDigits(CursorRowDigits(f)) /\ AllDigits(CursorColDigits(f))
        /\ ParseDecimal(CursorRowDigits(f)) = conf.cy + 1
        /\ ParseDecimal(CursorColDigits(f)) = conf.cx + 1
        /\ ParseDecimal(CursorRowDigits(f)) \in 1..conf.rows
        /\ ParseDecimal(CursorColDigits(f)) \in 1..conf.cols

\* C17: the frame draw_rows builds ends with the cursor-position sequence
\* of the tracked cursor, one-indexed (row = cy + 1, col = cx + 1), after
\* all rows and immediately before show-cursor, the last element; the row
\* is in 1..rows and the column in 1..cols.  Checked of the frame on the
\* screen and of the frame draw_rows builds for every configuration the
\* loop reaches.
C17_CursorSequence ==
    /\ FrameDrawn => CursorTail(screen, config)
    /\ pc = "read" => CursorTail(draw_rows(config), config)

\* C17 witness: the frame on the screen ends with ESC[1;1H, and for the
\* cursor walked to row 10, column 10 (zero-indexed) draw_rows builds a
\* frame ending with ESC[11;11H.
C17_Witness ==
    /\ pc = "read" /\ frames = 1 /\ config.rows = 24 /\ config.cols = 80
    /\ config.cy = 10 /\ config.cx = 10
    /\ CursorSeq(screen) = <<"ESC", "[", "1", ";", "1", "H">>
    /\ CursorSeq(draw_rows(config)) = <<"ESC", "[", "1", "1", ";", "1", "1", "H">>

\* C18: the loop stops with Quit exactly when the decoded event is
\* Control(0x11): process_key returns false for that event and for no
\* other, quit is set by no other step, and a byte 0x11 that is the first
\* or second byte after an ESC is consumed by the decoding of that escape
\* without becoming a Control(0x11) event.
C18_QuitOnlyOnControlQ ==
    [][ /\ pc = "process" => (quit' <=> key = Control(17))
        /\ pc = "process" => (process_key(key, config).ret <=> key # Control(17))
        /\ quit' # quit => (pc = "process" /\ pc' = "println")
        /\ (pc = "read" /\ Item(pos + 1) = 27
                /\ (Item(pos + 2) = 17 \/ Item(pos + 3) = 17)) =>
             /\ key' # Control(17)
             /\ pos' = Min(pos + 3, Len(stdin))
             /\ EscapeWithTwoBytes =>
                    key' = IF Item(pos + 2) = 17 THEN Char(17) ELSE Char(Item(pos + 2))
      ]_vars

\* C18 witness: ESC 0x11 x was decoded as Char(0x11) and handled; the loop
\* goes on.
C18_Witness ==
    /\ stdin = <<ESCAPE, 17, 120>> /\ pos = 3 /\ key = Char(17)
    /\ continued = 1 /\ ~quit /\ pc = "read"

\* C19: when ESC is followed by one byte b1 and then the end of the stream,
\* or the read of the second or third item fails, read_key yields
\* Control(0x1B) and consumes what it read after ESC, b1 = '[' included;
\* when nothing readable follows, the next call yields no event.
C19_IncompleteEscape ==
    [][ /\ (pc = "read" /\ Item(pos + 1) = 27 /\ ~EscapeWithTwoBytes) =>
             /\ key' = Control(27)
             /\ pos' = Min(pos + 3, Len(stdin))
             /\ pc' = "process"
        /\ (pc = "read" /\ Item(pos + 1) = 27 /\ IsByte(Item(pos + 2))
                /\ Len(stdin) = pos + 2) =>
             /\ key' = Control(27) /\ pos' = Len(stdin)
             /\ read_key(stdin, pos').key = None
        /\ (pc = "read" /\ key = Control(27) /\ pos >= 2 /\ pos = Len(stdin)
                /\ stdin[pos - 1] = 27) =>
             (key' = None /\ pc' = "println")
      ]_vars

\* C19 witness: the stream was ESC [ and nothing more; Control(0x1B) was
\* handled and the next call has returned None.
C19_Witness ==
    /\ stdin = <<ESCAPE, LBracket>> /\ pos = 2 /\ continued = 1
    /\ key = None /\ ~quit /\ pc = "println"

====
